---- MODULE Spec2Model ----
(***************************************************************************)
(* A model of httpx_html (src/src/httpx_html/parse.py, session.py): the    *)
(* Document View (class HTML), its lazily cached fields, the next-page     *)
(* heuristic, the page iterators and the render retry loop.                *)
(*                                                                         *)
(* The module holds several specifications over one set of variables; each *)
(* specification leaves the variables of the others at their idle value:   *)
(*   SpecRender  HTML.render / HTML.arender and HTML._async_render         *)
(*   SpecCache   the raw content of a view and its cached encoding, tree   *)
(*               and selector handle                                       *)
(*   SpecNext    BaseParser.find(containing=...) and HTML.next             *)
(*   SpecIter    HTML.__iter__ and HTML.__aiter__ / HTML.__anext__         *)
(*   SpecRun     AsyncHTMLSession.run                                      *)
(*   SpecBrowser the Session's browser handle and the close of a Session   *)
(*   SpecQuery   find, xpath, links, absolute_links, base_url and          *)
(*               _make_absolute on a document                              *)
(*   SpecMarkers the marker lists of the views: add_next_symbol            *)
(***************************************************************************)
EXTENDS Integers, Sequences, FiniteSets, TLC

VARIABLES
    view,      \* the Document View render is called on (its slots and, when it has one, its __dict__)
    session,   \* the view's Session: browser handle, launches, state of the event loop
    call,      \* the frame of render / arender: parameters, locals, program counter
    att,       \* the frame of the running _async_render call
    pages,     \* the browser's pages, by handle 1..Len(pages): "open" or "closed"
    outcome,   \* how the render call ended
    obj,       \* a view (HTML or Element) with its raw content and lazy caches
    doc,       \* the page next() is called on
    nx,        \* the call of next(): arguments, result, requests made
    web,       \* the pages the Session serves, by URL
    iter,      \* an iteration over a view: __iter__ or __aiter__/__anext__
    run,       \* a call of AsyncHTMLSession.run: its tasks and its result list
    loop,      \* the coroutines of an event loop that use one Session's browser
    query,     \* a call of find / xpath / links / base_url / _make_absolute on a document
    marks      \* the marker lists of the views of a program, as list objects

renderVars == <<view, session, call, att, pages, outcome>>
cacheVars == <<obj>>
nextVars == <<doc, nx>>
iterVars == <<web, iter>>
runVars == <<run>>
browserVars == <<loop>>
queryVars == <<query>>
markerVars == <<marks>>
vars == <<view, session, call, att, pages, outcome, obj, doc, nx, web, iter,
          run, loop, query, marks>>

\* The value of the variables a specification does not use.
Idle == "idle"

----------------------------------------------------------------------------
(* Bounds of the model *)

MaxRetries == 3       \* render is called with retries in 0..MaxRetries
MaxCookies == 2       \* length of the longest cookies list passed to render
MaxScroll == 1        \* render is called with scrolldown in 0..MaxScroll
MaxAnchors == 3       \* number of <a> elements of the longest page
MaxSteps == 4         \* items an iteration is followed for
MaxCoros == 4         \* run is called with 1..MaxCoros coroutines
MaxTasks == 3         \* accesses of one Session's browser handle
MaxLinks == 3         \* number of <a> elements of the documents find is called on
MaxViews == 3         \* Document Views a program creates
MaxAdded == 3         \* calls of add_next_symbol a program makes

----------------------------------------------------------------------------
(* Values *)

None == "None"                          \* Python's None
DEFAULT_URL == "https://example.org/"
DEFAULT_ENCODING == "utf-8"
DEFAULT_NEXT_SYMBOL == <<"next", "more", "older">>

NoPage == 0        \* the local `page` holds None
Unbound == -1      \* the local `page` is not bound yet

\* Python truthiness of a str / None value: `if not content`
Truthy(v) == v # None /\ v # ""

\* The classes a view can be an instance of.  Every class in HTML's MRO
\* declares __slots__ (BaseParser, HTML), so an HTML instance has no __dict__
\* and accepts no attribute outside the slots; an instance of a subclass that
\* declares no __slots__ has a __dict__.
Classes == {"HTML", "Subclass"}
BaseParserSlots == {"element", "url", "skip_anchors", "default_encoding",
                    "_encoding", "_html", "_lxml", "_pq"}
HTMLSlots == {"session", "page", "next_symbol"}
HasDict(cls) == cls # "HTML"
\* object.__setattr__(self, name, v) succeeds iff name is a slot or there is a __dict__
CanSet(cls, name) == name \in (BaseParserSlots \cup HTMLSlots) \/ HasDict(cls)


----------------------------------------------------------------------------
(* The Document View *)

\* HTML.__init__ (and BaseParser.__init__): the state of a fresh view.
\* `html` stands for the raw bytes; the caches hold None or the content they
\* were computed from.  `browser` is the attribute render sets (None: unset).
NewHTML(cls, sess, url, html, default_encoding) ==
    [cls |-> cls, session |-> sess, url |-> url, html |-> html,
     default_encoding |-> default_encoding,
     encoding |-> None, lxml |-> None, pq |-> None,
     page |-> NoPage, next_symbol |-> DEFAULT_NEXT_SYMBOL, browser |-> None]

\* The view after its encoding, tree and selector handle have been read once.
WithCaches(v) == [v EXCEPT !.encoding = v.default_encoding, !.lxml = v.html, !.pq = v.html]

----------------------------------------------------------------------------
(* The Session's browser handle *)

\* HTMLSession.browser (blocking) and BaseSession.browser (awaited by arender):
\* the handle is launched when the session has none; the blocking property
\* first takes the event loop and refuses when it is running.
\* Gives the session afterwards and the error raised (None: no error).
SessionBrowser(s, method) ==
    IF s.browser # None
    THEN [s |-> s, raised |-> None]
    ELSE IF method = "render" /\ s.loopRunning
         THEN [s |-> s, raised |-> "RuntimeError"]
         ELSE [s |-> [s EXCEPT !.browser = "browser", !.launches = @ + 1],
               raised |-> None]

\* HTML._convert_cookiesjar_to_render: the Session's cookies converted for
\* page.setCookie when they are an http.cookiejar.CookieJar, else no cookie.
ConvertCookiesJar(s) == IF s.cookiesIsJar THEN s.cookies ELSE <<>>

----------------------------------------------------------------------------
(* render / arender: the inputs *)

EmptyCookie == "{}"                 \* the falsy cookie dict of the default [{}]
Cookies == {EmptyCookie, "ck1"}
Contents == {"", "rendered"}        \* what page.content() can give: empty or not
Url1 == "https://site.test/a/b"

RECURSIVE SeqsUpTo(_, _)
SeqsUpTo(S, n) ==
    IF n = 0 THEN {<<>>}
    ELSE LET shorter == SeqsUpTo(S, n - 1)
         IN shorter \cup {Append(q, x) : q \in {r \in shorter : Len(r) = n - 1}, x \in S}

\* The defaults of render's signature (retries is bounded by the model).
DefaultParams ==
    [cls |-> "Subclass", method |-> "render", retries |-> MaxRetries,
     script |-> None, scrolldown |-> 0, reload |-> TRUE, keep_page |-> FALSE,
     cookies |-> <<EmptyCookie>>, send_cookies_session |-> FALSE,
     url |-> Url1, cached |-> TRUE, encoding |-> None,
     loopRunning |-> FALSE, hadBrowser |-> FALSE, cookiesIsJar |-> FALSE]

\* The calls the model makes: each family varies some parameters of the call
\* and leaves the others at their defaults.
RetryParams ==
    {[DefaultParams EXCEPT !.cls = c, !.retries = n, !.keep_page = k,
                           !.script = s, !.cached = f, !.encoding = e] :
        c \in Classes, n \in 0..MaxRetries, k \in BOOLEAN,
        s \in {None, "js"}, f \in BOOLEAN, e \in {None, "latin-1"}}
NavigationParams ==
    {[DefaultParams EXCEPT !.url = u, !.reload = r, !.scrolldown = d] :
        u \in {DEFAULT_URL, Url1}, r \in BOOLEAN, d \in 0..MaxScroll}
CookieParams ==
    {[DefaultParams EXCEPT !.cookies = cs, !.send_cookies_session = b,
                           !.cookiesIsJar = j] :
        cs \in SeqsUpTo(Cookies, MaxCookies), b \in BOOLEAN, j \in BOOLEAN}
SessionParams ==
    {[DefaultParams EXCEPT !.cls = c, !.method = m, !.loopRunning = l,
                           !.hadBrowser = h] :
        c \in Classes, m \in {"render", "arender"}, l \in BOOLEAN, h \in BOOLEAN}
RenderParams == RetryParams \cup NavigationParams \cup CookieParams \cup SessionParams

NoAttempt == [page |-> Unbound, result |-> None, content |-> None, k |-> 0]

\* The view render is called on: fresh or with its caches filled, and with
\* the encoding the caller has set through the setter (lines 121-123), if any
ViewOf(p) ==
    LET v == NewHTML(p.cls, "session", p.url, "original", DEFAULT_ENCODING)
        w == IF p.cached THEN WithCaches(v) ELSE v
    IN IF p.encoding # None THEN [w EXCEPT !.encoding = p.encoding] ELSE w

\* call.reload is render's local `reload`, which line 712 may overwrite;
\* call.reload_arg keeps the value the caller passed, call.self the view as
\* it was when render was called.
InitRender ==
    \E p \in RenderParams :
      \E v \in {ViewOf(p)} :
        /\ view = v
        /\ session = [browser |-> IF p.hadBrowser THEN "browser" ELSE None,
                      launches |-> IF p.hadBrowser THEN 1 ELSE 0,
                      loopRunning |-> p.loopRunning,
                      headers |-> {"User-Agent"},
                      cookies |-> <<"jar1">>, cookiesIsJar |-> p.cookiesIsJar]
        /\ call = [pc |-> "idle", method |-> p.method, retries |-> p.retries,
                   script |-> p.script, scrolldown |-> p.scrolldown,
                   reload |-> p.reload, reload_arg |-> p.reload,
                   keep_page |-> p.keep_page,
                   cookies |-> p.cookies,
                   send_cookies_session |-> p.send_cookies_session,
                   i |-> 0, content |-> None, result |-> None, page |-> Unbound,
                   attempts |-> 0, timeouts |-> 0, self |-> v]
        /\ att = NoAttempt
        /\ pages = <<>>
        /\ outcome = [kind |-> "running", value |-> None]
        /\ obj = Idle /\ doc = Idle /\ nx = Idle /\ web = Idle /\ iter = Idle
        /\ run = Idle /\ loop = Idle /\ query = Idle /\ marks = Idle


----------------------------------------------------------------------------
(* render / arender *)

Raise(kind) == [kind |-> kind, value |-> None]

\* The reload value handed to every attempt, had lines 710-712 been left out
ReloadAsPassed(url, reload) == reload

\* Lines 710-712 (762-764): reload is forced off for the placeholder URL
EffectiveReload(url, reload) == IF url = DEFAULT_URL THEN FALSE ELSE reload

\* Lines 707-715 (759-767): take the Session's browser, store it on the view,
\* clear content, force reload off for the placeholder URL, take the cookies.
RenderStart ==
    /\ call.pc = "idle"
    /\ LET got == SessionBrowser(session, call.method)
       IN /\ session' = got.s
          /\ IF got.raised # None
             THEN /\ outcome' = Raise(got.raised)
                  /\ call' = [call EXCEPT !.pc = "done"]
                  /\ view' = view
             ELSE IF ~CanSet(view.cls, "browser")
             THEN /\ outcome' = Raise("AttributeError")
                  /\ call' = [call EXCEPT !.pc = "done"]
                  /\ view' = view
             ELSE /\ view' = [view EXCEPT !.browser = got.s.browser]
                  /\ call' = [call EXCEPT
                        !.pc = "loop",
                        !.content = None,
                        !.reload = EffectiveReload(view.url, @),
                        !.cookies = IF call.send_cookies_session
                                    THEN ConvertCookiesJar(got.s) ELSE @]
                  /\ outcome' = outcome
    /\ UNCHANGED <<att, pages>>
    /\ UNCHANGED <<cacheVars, nextVars, iterVars, runVars, browserVars, queryVars, markerVars>>

\* The encoding html_to_unicode finds in the view's content, which declares
\* none (line 112)
SniffedEncoding(v) == "utf-8"

\* The encoding getter with the test of the cached value left out
EncodingSniffedAgain(v) == [v EXCEPT !.encoding = SniffedEncoding(v)]

\* The view after a read of its encoding (lines 111-119): the cache is
\* filled from the content when it is empty
EncodingRead(v) ==
    IF v.encoding = None /\ Truthy(v.html)
    THEN [v EXCEPT !.encoding = SniffedEncoding(v)] ELSE v

\* The value the encoding property gives (lines 111-119)
EncodingOf(v) ==
    IF v.encoding # None THEN v.encoding
    ELSE IF Truthy(v.html) THEN SniffedEncoding(v) ELSE v.default_encoding

\* Lines 717-718, 729-730: the head of `for i in range(retries)`; an attempt
\* starts while content is falsy, otherwise the loop is left.  render drives
\* the attempt with session.loop.run_until_complete (line 721), which raises
\* RuntimeError when an event loop is already running; arender awaits it.
\* The arguments of the attempt are evaluated first: content=self.html (line
\* 723) decodes the raw content with self.encoding (lines 96-97).
LoopHead ==
    /\ call.pc = "loop"
    /\ IF call.i < call.retries /\ ~Truthy(call.content)
       THEN IF call.method = "render" /\ session.loopRunning
            THEN /\ call' = [call EXCEPT !.pc = "done", !.i = @ + 1]
                 /\ outcome' = Raise("RuntimeError")
                 /\ att' = att
                 /\ view' = EncodingRead(view)
            ELSE /\ call' = [call EXCEPT !.pc = "newPage", !.i = @ + 1,
                                         !.attempts = @ + 1]
                 /\ att' = NoAttempt
                 /\ outcome' = outcome
                 /\ view' = EncodingRead(view)
       ELSE /\ call' = [call EXCEPT !.pc = "finish"]
            /\ att' = att
            /\ outcome' = outcome
            /\ view' = view
    /\ UNCHANGED <<session, pages>>
    /\ UNCHANGED <<cacheVars, nextVars, iterVars, runVars, browserVars, queryVars, markerVars>>

\* A browser page as the model records it.
NewPageRecord == [state |-> "open", agent |-> None, cookies |-> <<>>,
                  target |-> None, keys |-> 0]

\* Line 538: page = await self.browser.newPage()
NewPage ==
    /\ call.pc = "newPage"
    /\ pages' = Append(pages, NewPageRecord)
    /\ att' = [att EXCEPT !.page = Len(pages) + 1]
    /\ call' = [call EXCEPT !.pc = "wait"]
    /\ UNCHANGED <<view, session, outcome>>
    /\ UNCHANGED <<cacheVars, nextVars, iterVars, runVars, browserVars, queryVars, markerVars>>

\* Line 541: await asyncio.sleep(wait)
Wait ==
    /\ call.pc = "wait"
    /\ call' = [call EXCEPT !.pc = "userAgent"]
    /\ UNCHANGED <<view, session, att, pages, outcome>>
    /\ UNCHANGED <<cacheVars, nextVars, iterVars, runVars, browserVars, queryVars, markerVars>>

\* Lines 543-544: the Session's User-Agent header, when it has one
SetUserAgent ==
    /\ call.pc = "userAgent"
    /\ pages' = IF "User-Agent" \in session.headers
                THEN [pages EXCEPT ![att.page].agent = "User-Agent"] ELSE pages
    /\ att' = [att EXCEPT !.k = 1]
    /\ call' = [call EXCEPT !.pc = "cookies"]
    /\ UNCHANGED <<view, session, outcome>>
    /\ UNCHANGED <<cacheVars, nextVars, iterVars, runVars, browserVars, queryVars, markerVars>>

\* Lines 546-549: one turn of `for cookie in cookies`; a truthy cookie is set
SetCookie ==
    /\ call.pc = "cookies"
    /\ IF att.k <= Len(call.cookies)
       THEN /\ pages' = IF call.cookies[att.k] # EmptyCookie
                        THEN [pages EXCEPT ![att.page].cookies = Append(@, call.cookies[att.k])]
                        ELSE pages
            /\ att' = [att EXCEPT !.k = @ + 1]
            /\ call' = call
       ELSE /\ call' = [call EXCEPT !.pc = "goto"]
            /\ UNCHANGED <<att, pages>>
    /\ UNCHANGED <<view, session, outcome>>
    /\ UNCHANGED <<cacheVars, nextVars, iterVars, runVars, browserVars, queryVars, markerVars>>

\* Line 559: the data URL that carries the view's current html
DataUrl == "data:text/html"

\* Lines 551-559: navigate to the live URL when reload, else to the data URL
\* of the view's current html
Goto ==
    /\ call.pc = "goto"
    /\ pages' = [pages EXCEPT ![att.page].target =
                    IF call.reload THEN view.url ELSE DataUrl]
    /\ call' = [call EXCEPT !.pc = "evaluate"]
    /\ UNCHANGED <<view, session, att, outcome>>
    /\ UNCHANGED <<cacheVars, nextVars, iterVars, runVars, browserVars, queryVars, markerVars>>

\* Lines 561-563: result = None; the script's value when a script is given
Evaluate ==
    /\ call.pc = "evaluate"
    /\ att' = [att EXCEPT !.result = IF Truthy(call.script) THEN "value" ELSE None]
    /\ call' = [call EXCEPT !.pc = "scroll"]
    /\ UNCHANGED <<view, session, pages, outcome>>
    /\ UNCHANGED <<cacheVars, nextVars, iterVars, runVars, browserVars, queryVars, markerVars>>

\* Lines 565-573: scrolldown PageDown presses with a sleep after each, or one sleep
Scroll ==
    /\ call.pc = "scroll"
    /\ pages' = [pages EXCEPT ![att.page].keys = call.scrolldown]
    /\ call' = [call EXCEPT !.pc = "content"]
    /\ UNCHANGED <<view, session, att, outcome>>
    /\ UNCHANGED <<cacheVars, nextVars, iterVars, runVars, browserVars, queryVars, markerVars>>

\* Line 576: content = await page.content()
Content ==
    /\ call.pc = "content"
    /\ \E c \in Contents : att' = [att EXCEPT !.content = c]
    /\ call' = [call EXCEPT !.pc = "return"]
    /\ UNCHANGED <<view, session, pages, outcome>>
    /\ UNCHANGED <<cacheVars, nextVars, iterVars, runVars, browserVars, queryVars, markerVars>>

\* Lines 577-580 and 721: close the page unless keep_page, return the triple,
\* which render unpacks into content, result, page
Return ==
    /\ call.pc = "return"
    /\ pages' = IF ~call.keep_page THEN [pages EXCEPT ![att.page].state = "closed"]
                ELSE pages
    /\ call' = [call EXCEPT !.pc = "loop", !.content = att.content,
                            !.result = att.result,
                            !.page = IF ~call.keep_page THEN NoPage ELSE att.page]
    /\ UNCHANGED <<view, session, att, outcome>>
    /\ UNCHANGED <<cacheVars, nextVars, iterVars, runVars, browserVars, queryVars, markerVars>>

\* The awaited browser calls of an attempt that can raise TimeoutError:
\* newPage, setUserAgent, setCookie, goto, evaluate, content.
AwaitsBrowser ==
    \/ call.pc \in {"newPage", "goto", "content"}
    \/ call.pc = "userAgent" /\ "User-Agent" \in session.headers
    \/ call.pc = "cookies" /\ att.k <= Len(call.cookies)
                           /\ call.cookies[att.k] # EmptyCookie
    \/ call.pc = "evaluate" /\ Truthy(call.script)

\* The awaited call of the current step raises TimeoutError
Timeout ==
    /\ AwaitsBrowser
    /\ call' = [call EXCEPT !.pc = "except", !.timeouts = @ + 1]
    /\ UNCHANGED <<view, session, att, pages, outcome>>
    /\ UNCHANGED <<cacheVars, nextVars, iterVars, runVars, browserVars, queryVars, markerVars>>

\* Lines 581-584 and 727-728: the handler closes `page` and returns None;
\* render's unpacking of None raises TypeError, which it swallows.  When
\* newPage itself timed out, `page` is unbound and the handler raises
\* UnboundLocalError, which nothing catches.
Except ==
    /\ call.pc = "except"
    /\ IF att.page = Unbound
       THEN /\ outcome' = Raise("UnboundLocalError")
            /\ call' = [call EXCEPT !.pc = "done"]
            /\ pages' = pages
       ELSE /\ pages' = [pages EXCEPT ![att.page].state = "closed"]
            /\ call' = [call EXCEPT !.pc = "loop"]
            /\ outcome' = outcome
    /\ UNCHANGED <<view, session, att>>
    /\ UNCHANGED <<cacheVars, nextVars, iterVars, runVars, browserVars, queryVars, markerVars>>

\* goto or evaluate raises an error that is no TimeoutError (a network or
\* page error): neither _async_render nor render catches it.
StepError ==
    /\ \/ call.pc = "goto"
       \/ call.pc = "evaluate" /\ Truthy(call.script)
    /\ outcome' = Raise("PageError")
    /\ call' = [call EXCEPT !.pc = "done"]
    /\ UNCHANGED <<view, session, att, pages>>
    /\ UNCHANGED <<cacheVars, nextVars, iterVars, runVars, browserVars, queryVars, markerVars>>

\* Lines 732-740: MaxRetries when content is falsy; else a fresh HTML is built
\* from the content and self.__dict__.update(html.__dict__) copies its fields,
\* which needs a __dict__ on both objects; then self.page = page.
Finish ==
    /\ call.pc = "finish"
    /\ IF ~Truthy(call.content)
       THEN /\ outcome' = Raise("MaxRetries")
            /\ view' = view
       ELSE LET html == NewHTML("HTML", "new session", view.url, call.content,
                                DEFAULT_ENCODING)
            IN IF HasDict(view.cls) /\ HasDict(html.cls)
               THEN /\ view' = [html EXCEPT !.cls = view.cls, !.browser = view.browser,
                                            !.page = call.page]
                    /\ outcome' = [kind |-> "returned", value |-> call.result]
               ELSE /\ outcome' = Raise("AttributeError")
                    /\ view' = view
    /\ call' = [call EXCEPT !.pc = "done"]
    /\ UNCHANGED <<session, att, pages>>
    /\ UNCHANGED <<cacheVars, nextVars, iterVars, runVars, browserVars, queryVars, markerVars>>

NextRender ==
    \/ RenderStart \/ LoopHead \/ NewPage \/ Wait \/ SetUserAgent \/ SetCookie
    \/ Goto \/ Evaluate \/ Scroll \/ Content \/ Return \/ Timeout \/ Except
    \/ StepError \/ Finish

SpecRender == InitRender /\ [][NextRender]_vars


----------------------------------------------------------------------------
(* The raw content of a view and its caches (BaseParser) *)

\* Markup texts.  "A" and "B" are documents, "E" is the serialisation of a
\* tree node; each declares a charset.  The lower-case text is the same markup
\* with script and style content removed.
Texts == {"A", "B"}
Encodings == {"utf-8", "latin-1"}
Declared(t) == IF t \in {"A", "a"} THEN "latin-1" ELSE "utf-8"
Cleaned(t) == CASE t = "A" -> "a" [] t = "B" -> "b" [] t = "E" -> "e" [] OTHER -> t

\* A str is its text and whether a wrong codec has garbled it; bytes are a
\* str encoded with a codec.
Str(t) == [text |-> t, garbled |-> FALSE]
NoStr == [text |-> None, garbled |-> FALSE]
NoBytes == [text |-> None, enc |-> None, garbled |-> FALSE]
Encode(str, enc) == [text |-> str.text, enc |-> enc, garbled |-> str.garbled]
Decode(b, enc) == [text |-> b.text,
                   garbled |-> b.garbled \/ (enc # b.enc /\ b.enc # "ascii")]
RawContents == {Encode(Str(t), e) : t \in Texts, e \in Encodings}

\* The cached encoding with the content it was sniffed from; Caller: set
\* through the encoding setter.
Caller == [text |-> "caller", enc |-> None, garbled |-> FALSE]
NoEncoding == [value |-> None, src |-> NoBytes]

\* w3lib's html_to_unicode(default_encoding, html)[0]: the declared charset
Sniff(default_encoding, b) == Declared(b.text)
\* The bytes are not valid in the codec: a strict decode would fail.  latin-1
\* decodes every byte; bytes written in latin-1 are not valid utf-8.
Undecodable(b, enc) == enc = "utf-8" /\ b.enc = "latin-1"

\* bytes.decode(enc, errors='replace') replaces what it cannot decode: it
\* raises no UnicodeDecodeError
DecodeRaises(b, enc) == FALSE
\* soup_parse(html) raising ValueError
SoupParseRaises(str) == FALSE

\* BaseParser.__init__ for an HTML built from bytes and for an Element built
\* from a tree node (no raw content of its own)
NewView(kind, element, html, default_encoding) ==
    [kind |-> kind, element |-> element, html |-> html,
     default_encoding |-> default_encoding,
     encoding |-> NoEncoding, lxml |-> NoStr, pq |-> NoStr]

\* Each getter gives the view afterwards (a getter fills caches) and its value.

\* Lines 105-119: the encoding property
EncodingGet(o) ==
    LET o1 == IF o.encoding.value = None /\ o.html # NoBytes
              THEN LET sniffed == Sniff(o.default_encoding, o.html)
                   IN IF DecodeRaises(o.html, sniffed)
                      THEN [o EXCEPT !.encoding = [value |-> o.default_encoding, src |-> o.html]]
                      ELSE [o EXCEPT !.encoding = [value |-> sniffed, src |-> o.html]]
              ELSE o
    IN [o |-> o1,
        value |-> IF o1.encoding.value # None THEN o1.encoding.value
                  ELSE o1.default_encoding]

\* Lines 79-86: the raw_html property
RawHtmlGet(o) ==
    IF o.html # NoBytes
    THEN [o |-> o, value |-> o.html]
    ELSE LET e == EncodingGet(o)
         IN [o |-> e.o, value |-> Encode(Str(o.element), e.value)]

\* Lines 92-99: the html property
HtmlGet(o) ==
    IF o.html # NoBytes
    THEN LET r == RawHtmlGet(o)
             e == EncodingGet(r.o)
         IN [o |-> e.o, value |-> Decode(r.value, e.value)]
    ELSE [o |-> o, value |-> Str(o.element)]

\* Lines 135-146: the lxml property; the tree is named by the str it parses
LxmlGet(o) ==
    IF o.lxml = NoStr
    THEN LET h == HtmlGet(o)
         IN IF SoupParseRaises(h.value)
            THEN LET r == RawHtmlGet(h.o)
                 IN [o |-> [r.o EXCEPT !.lxml = Decode(r.value, r.value.enc)],
                     value |-> Decode(r.value, r.value.enc)]
            ELSE [o |-> [h.o EXCEPT !.lxml = h.value], value |-> h.value]
    ELSE [o |-> o, value |-> o.lxml]

\* Lines 125-133: the pq property, built from the tree
PqGet(o) ==
    IF o.pq = NoStr
    THEN LET l == LxmlGet(o)
         IN [o |-> [l.o EXCEPT !.pq = l.value], value |-> l.value]
    ELSE [o |-> o, value |-> o.pq]

\* Lines 88-90: the raw_html setter
RawHtmlSet(o, b) == [o EXCEPT !.html = b]

\* Lines 101-103: the html setter
HtmlSet(o, str) ==
    LET e == EncodingGet(o)
    IN [e.o EXCEPT !.html = Encode(str, e.value)]

\* Lines 121-123: the encoding setter
EncodingSet(o, enc) == [o EXCEPT !.encoding = [value |-> enc, src |-> Caller]]

\* Lines 216-222 (and 260-266): clean=True rewrites the raw content with the
\* serialisation of the sanitised copy of the element's tree
CleanRewrite(o) ==
    LET l == LxmlGet(o)
    IN RawHtmlSet(l.o, [text |-> Cleaned(l.value.text), enc |-> "ascii",
                        garbled |-> l.value.garbled])

InitCache ==
    /\ obj \in {NewView("HTML", "html", b, d) : b \in RawContents, d \in Encodings}
              \cup {NewView("Element", "E", NoBytes, d) : d \in Encodings}
    /\ view = Idle /\ session = Idle /\ call = Idle /\ att = Idle
    /\ pages = Idle /\ outcome = Idle
    /\ doc = Idle /\ nx = Idle /\ web = Idle /\ iter = Idle
    /\ run = Idle /\ loop = Idle /\ query = Idle /\ marks = Idle

ReadEncoding ==
    /\ obj' = EncodingGet(obj).o
    /\ UNCHANGED <<renderVars, nextVars, iterVars, runVars, browserVars, queryVars, markerVars>>
ReadRawHtml ==
    /\ obj' = RawHtmlGet(obj).o
    /\ UNCHANGED <<renderVars, nextVars, iterVars, runVars, browserVars, queryVars, markerVars>>
ReadHtml ==
    /\ obj' = HtmlGet(obj).o
    /\ UNCHANGED <<renderVars, nextVars, iterVars, runVars, browserVars, queryVars, markerVars>>
ReadLxml ==
    /\ obj' = LxmlGet(obj).o
    /\ UNCHANGED <<renderVars, nextVars, iterVars, runVars, browserVars, queryVars, markerVars>>
ReadPq ==
    /\ obj' = PqGet(obj).o
    /\ UNCHANGED <<renderVars, nextVars, iterVars, runVars, browserVars, queryVars, markerVars>>
SetRawHtml ==
    /\ \E b \in RawContents : obj' = RawHtmlSet(obj, b)
    /\ UNCHANGED <<renderVars, nextVars, iterVars, runVars, browserVars, queryVars, markerVars>>
SetHtml ==
    /\ \E t \in Texts : obj' = HtmlSet(obj, Str(t))
    /\ UNCHANGED <<renderVars, nextVars, iterVars, runVars, browserVars, queryVars, markerVars>>
SetEncoding ==
    /\ \E e \in Encodings : obj' = EncodingSet(obj, e)
    /\ UNCHANGED <<renderVars, nextVars, iterVars, runVars, browserVars, queryVars, markerVars>>
Clean ==
    /\ obj' = CleanRewrite(obj)
    /\ UNCHANGED <<renderVars, nextVars, iterVars, runVars, browserVars, queryVars, markerVars>>

NextCache ==
    \/ ReadEncoding \/ ReadRawHtml \/ ReadHtml \/ ReadLxml \/ ReadPq
    \/ SetRawHtml \/ SetHtml \/ SetEncoding \/ Clean

SpecCache == InitCache /\ [][NextCache]_vars

\* The str the html property gives for the view's current raw content, and
\* the encoding sniffed from it
CurrentText(o) == IF o.html # NoBytes THEN o.html.text ELSE o.element

\* C5: in every reachable state of a view, the cached tree and selector handle
\* are empty or parsed from the current raw content, and the cached encoding is
\* empty, set by the caller, or sniffed from the current raw content.
C5_CachesFollowRawContent ==
    /\ obj.lxml = NoStr \/ obj.lxml.text = CurrentText(obj)
    /\ obj.pq = NoStr \/ obj.pq.text = CurrentText(obj)
    /\ obj.encoding = NoEncoding \/ obj.encoding.src \in {Caller, obj.html}

----------------------------------------------------------------------------
(* Strings: Python's str operations on TLC strings *)

\* The element of a one-element set.  {F(v) : v \in {e}} evaluates e once and
\* hands F its value; the operators below use it to name a value they read
\* several times.
The(S) == CHOOSE x \in S : TRUE
Min(S) == The({CHOOSE x \in T : \A y \in T : x <= y : T \in {S}})
Max(S) == The({CHOOSE x \in T : \A y \in T : x >= y : T \in {S}})

\* needle in hay
Contains(hay, needle) ==
    \E h \in {hay}, n \in {needle} :
        \E i \in 0..(Len(h) - Len(n)) : SubSeq(h, i + 1, i + Len(n)) = n

\* hay.find(needle) + 1: the first position of needle, 0 when absent
Find1(hay, needle) ==
    The({ LET at == {i \in 1..(Len(h) - Len(n) + 1) : SubSeq(h, i, i + Len(n) - 1) = n}
          IN IF at = {} THEN 0 ELSE Min(at)
          : h \in {hay}, n \in {needle} })

StartsWith(str, prefix) ==
    \E s \in {str} : Len(s) >= Len(prefix) /\ SubSeq(s, 1, Len(prefix)) = prefix

UpperCase == "ABCDEFGHIJKLMNOPQRSTUVWXYZ"
LowerCase == "abcdefghijklmnopqrstuvwxyz"
LowerChar(c) ==
    The({ IF i = 0 THEN c ELSE SubSeq(LowerCase, i, i) : i \in {Find1(UpperCase, c)} })

\* str.lower()
RECURSIVE LowerFrom(_, _)
LowerFrom(s, i) ==
    IF i > Len(s) THEN ""
    ELSE LowerChar(SubSeq(s, i, i)) \o LowerFrom(s, i + 1)
Lower(str) == The({LowerFrom(s, 1) : s \in {str}})

\* str.split(sep) for a one-character sep
SplitOn(str, sep) ==
    The({ LET at == {i \in 1..Len(s) : SubSeq(s, i, i) = sep}
              n == Cardinality(at)
              Pos(k) == IF k = 0 THEN 0
                        ELSE IF k = n + 1 THEN Len(s) + 1
                        ELSE CHOOSE i \in at : Cardinality({j \in at : j < i}) = k - 1
          IN [k \in 1..(n + 1) |-> SubSeq(s, Pos(k - 1) + 1, Pos(k) - 1)]
          : s \in {str} })

\* str.split(): the runs of non-blank characters
Split(str) == SelectSeq(SplitOn(str, " "), LAMBDA w : w # "")

\* str.strip()
Strip(str) ==
    The({ LET inked == {i \in 1..Len(s) : SubSeq(s, i, i) # " "}
          IN IF inked = {} THEN "" ELSE SubSeq(s, Min(inked), Max(inked))
          : s \in {str} })

\* sep.join(parts)
RECURSIVE JoinFrom(_, _, _)
JoinFrom(parts, sep, i) ==
    IF i > Len(parts) THEN ""
    ELSE IF i = Len(parts) THEN parts[i]
    ELSE parts[i] \o sep \o JoinFrom(parts, sep, i + 1)
Join(parts, sep) == The({JoinFrom(q, sep, 1) : q \in {parts}})

\* list.reverse()
Reverse(seq) == The({[i \in 1..Len(q) |-> q[Len(q) + 1 - i]] : q \in {seq}})

----------------------------------------------------------------------------
(* URLs: urllib.parse as the Link Resolver uses it *)

Letters == {"a", "b", "c", "d", "e", "f", "g", "h", "i", "j", "k", "l", "m",
            "n", "o", "p", "q", "r", "s", "t", "u", "v", "w", "x", "y", "z"}
SchemeChars == Letters \cup {"0", "1", "2", "3", "4", "5", "6", "7", "8", "9",
                             "+", "-", "."}
UsesRelative == {"", "http", "https", "ftp", "file"}
UsesNetloc == {"", "http", "https", "ftp", "file"}

\* str.split(sep, 1) as a pair
SplitOnce(str, sep) ==
    The({ IF i = 0 THEN <<s, "">>
          ELSE <<SubSeq(s, 1, i - 1), SubSeq(s, i + 1, Len(s))>>
          : s \in {str}, i \in {Find1(str, sep)} })

\* urlsplit's scheme: the text before the first ":" when it is a letter
\* followed by scheme characters
SplitScheme(url, default_scheme) ==
    The({ IF /\ i > 1
             /\ LowerChar(SubSeq(s, 1, 1)) \in Letters
             /\ \A j \in 1..(i - 1) : LowerChar(SubSeq(s, j, j)) \in SchemeChars
          THEN <<Lower(SubSeq(s, 1, i - 1)), SubSeq(s, i + 1, Len(s))>>
          ELSE <<default_scheme, s>>
          : s \in {url}, i \in {Find1(url, ":")} })

\* urlsplit's netloc: after a leading "//", up to the first of "/", "?", "#"
SplitNetloc(rest) ==
    The({ IF StartsWith(r, "//")
          THEN LET stops == {i \in 3..Len(r) : SubSeq(r, i, i) \in {"/", "?", "#"}}
                   stop == IF stops = {} THEN Len(r) + 1 ELSE Min(stops)
               IN <<SubSeq(r, 3, stop - 1), SubSeq(r, stop, Len(r))>>
          ELSE <<"", r>>
          : r \in {rest} })

\* urlparse(url, scheme): scheme, netloc, path, query, fragment
UrlParse(url, default_scheme) ==
    The({ The({ The({ The({
        [scheme |-> bySch[1], netloc |-> byNet[1], path |-> byQuery[1],
         query |-> byQuery[2], fragment |-> byFrag[2]]
        : byQuery \in {SplitOnce(byFrag[1], "?")} })
        : byFrag \in {SplitOnce(byNet[2], "#")} })
        : byNet \in {SplitNetloc(bySch[2])} })
        : bySch \in {SplitScheme(url, default_scheme)} })

\* urlunparse(parts)
UrlUnparse(parts) ==
    The({ LET withNetloc ==
                  IF u.netloc # "" \/ (u.scheme # "" /\ u.scheme \in UsesNetloc
                                        /\ ~StartsWith(u.path, "//"))
                  THEN "//" \o u.netloc \o
                       (IF u.path # "" /\ ~StartsWith(u.path, "/") THEN "/" ELSE "")
                       \o u.path
                  ELSE u.path
              withScheme == IF u.scheme # "" THEN u.scheme \o ":" \o withNetloc
                            ELSE withNetloc
              withQuery == IF u.query # "" THEN withScheme \o "?" \o u.query
                           ELSE withScheme
          IN IF u.fragment # "" THEN withQuery \o "#" \o u.fragment ELSE withQuery
          : u \in {parts} })

\* urljoin: the dot segments "." and ".." removed from segments[i..]
RECURSIVE ResolveDots(_, _, _)
ResolveDots(segments, i, resolved) ==
    IF i > Len(segments) THEN resolved
    ELSE The({ ResolveDots(segments, i + 1, r) :
               r \in { IF segments[i] = ".."
                       THEN IF resolved = <<>> THEN resolved
                            ELSE SubSeq(resolved, 1, Len(resolved) - 1)
                       ELSE IF segments[i] = "." THEN resolved
                       ELSE Append(resolved, segments[i]) } })

\* urljoin's path: the reference path merged with the base path
JoinPaths(bpath, path) ==
    The({ The({ LET resolved == ResolveDots(segments, 1, <<>>)
                    text == Join(IF segments[Len(segments)] \in {".", ".."}
                                 THEN Append(resolved, "") ELSE resolved, "/")
                IN IF text = "" THEN "/" ELSE text
          : segments \in {
              IF StartsWith(path, "/") THEN SplitOn(path, "/")
              ELSE LET joined == (IF baseParts[Len(baseParts)] # ""
                                  THEN SubSeq(baseParts, 1, Len(baseParts) - 1)
                                  ELSE baseParts) \o SplitOn(path, "/")
                   IN IF Len(joined) <= 2 THEN joined
                      ELSE <<joined[1]>>
                           \o SelectSeq(SubSeq(joined, 2, Len(joined) - 1),
                                        LAMBDA g : g # "")
                           \o <<joined[Len(joined)]>> } })
          : baseParts \in {SplitOn(bpath, "/")} })

\* urljoin(base, url)
UrlJoin(base, url) ==
    IF base = "" THEN url
    ELSE IF url = "" THEN base
    ELSE The({ The({
        IF u.scheme # b.scheme \/ u.scheme \notin UsesRelative THEN url
        ELSE IF u.scheme \in UsesNetloc /\ u.netloc # "" THEN UrlUnparse(u)
        ELSE LET netloc == IF u.scheme \in UsesNetloc THEN b.netloc ELSE u.netloc
             IN IF u.path = ""
                THEN UrlUnparse([u EXCEPT !.netloc = netloc, !.path = b.path,
                                          !.query = IF u.query = "" THEN b.query ELSE @])
                ELSE UrlUnparse([u EXCEPT !.netloc = netloc,
                                          !.path = JoinPaths(b.path, u.path)])
        : u \in {UrlParse(url, b.scheme)} })
        : b \in {UrlParse(base, "")} })

----------------------------------------------------------------------------
(* Elements, find and the Link Resolver *)

Absent == "<absent>"        \* an attribute the element does not carry

\* An element as the tree gives it: its full text and its attributes
Elem(text, href, rel, class) == [text |-> text, href |-> href, rel |-> rel, class |-> class]

\* Element.attrs (lines 386-399): `class` and `rel` are split into tokens;
\* AttrTokens is attrs.get(name, []) for those two
AttrTokens(value) == IF value = Absent THEN <<>> ELSE Split(value)
\* attrs.get('href', default)
AttrGet(value, default) == IF value = Absent THEN default ELSE value

\* BaseParser.find (lines 193-224) over the elements the selector matches, in
\* document order; `containing` is the list of substrings (<<>>: not given)
\* the test of find with the case of the letters kept
ContainsAnyExact(el, containing) ==
    \E i \in 1..Len(containing) : Contains(el.text, containing[i])

ContainsAny(el, containing) ==
    \E text \in {Lower(el.text)} :
        \E i \in 1..Len(containing) : Contains(text, Lower(containing[i]))
\* find(containing=...) that keeps the document order
FindElementsInOrder(elements, containing) ==
    IF containing # <<>>
    THEN SelectSeq(elements, LAMBDA el : ContainsAny(el, containing))
    ELSE elements
\* find as the code has it: the filtered list is reversed (lines 203-213)
FindElements(elements, containing) ==
    IF containing # <<>>
    THEN Reverse(SelectSeq(elements, LAMBDA el : ContainsAny(el, containing)))
    ELSE elements

\* _get_first_or_list(lst, first=True) (lines 794-801) as a sequence of
\* length 0 (None) or 1
First(lst) == IF lst = <<>> THEN <<>> ELSE <<lst[1]>>

\* base_url that returns the href of the base tag as written
BaseUrlVerbatim(d) ==
    LET base == First(FindElements(d.bases, <<>>))
    IN IF base # <<>> /\ Strip(AttrGet(base[1].href, "")) # ""
       THEN AttrGet(base[1].href, "")
       ELSE LET parsed == UrlParse(d.url, "")
                parts == SplitOn(parsed.path, "/")
                path == Join(SubSeq(parts, 1, Len(parts) - 1), "/") \o "/"
            IN UrlUnparse([parsed EXCEPT !.path = path])

\* BaseParser.base_url (lines 335-357)
BaseUrl(d) ==
    LET base == First(FindElements(d.bases, <<>>))
        result == IF base # <<>> THEN Strip(AttrGet(base[1].href, "")) ELSE ""
    IN IF result # "" THEN result
       ELSE LET parsed == UrlParse(d.url, "")
                parts == SplitOn(parsed.path, "/")
                path == Join(SubSeq(parts, 1, Len(parts) - 1), "/") \o "/"
            IN UrlUnparse([parsed EXCEPT !.path = path])

\* BaseParser._make_absolute (lines 303-322)
MakeAbsolute(d, link) ==
    LET parsed == UrlParse(link, "")
    IN IF parsed.netloc = "" THEN UrlJoin(BaseUrl(d), link)
       ELSE IF parsed.scheme = ""
            THEN UrlUnparse([parsed EXCEPT !.scheme = UrlParse(BaseUrl(d), "").scheme])
            ELSE link

----------------------------------------------------------------------------
(* HTML.next *)

\* The tests get_next applies to one candidate (lines 462-473)
RelNext(el) == \E i \in 1..Len(AttrTokens(el.rel)) : AttrTokens(el.rel)[i] = "next"
ClassNext(el) ==
    \E i \in 1..Len(AttrTokens(el.class)) : Contains(AttrTokens(el.class)[i], "next")
HrefPage(el) == Contains(el.href, "page")
Qualifies(el) ==
    /\ Truthy(AttrGet(el.href, None))
    /\ RelNext(el) \/ ClassNext(el) \/ HrefPage(el)

\* get_next without its fallback, as the original claim C6 reads it: the rules
\* ranked over all candidates
GetNextRanked(candidates) ==
    LET withHref == SelectSeq(candidates, LAMBDA el : Truthy(AttrGet(el.href, None)))
        byRel == SelectSeq(withHref, RelNext)
        byClass == SelectSeq(withHref, ClassNext)
        byPage == SelectSeq(withHref, HrefPage)
    IN IF byRel # <<>> THEN [value |-> byRel[1].href, raised |-> None]
       ELSE IF byClass # <<>> THEN [value |-> byClass[1].href, raised |-> None]
       ELSE IF byPage # <<>> THEN [value |-> byPage[1].href, raised |-> None]
       ELSE IF candidates = <<>> THEN [value |-> None, raised |-> None]
       ELSE IF candidates[Len(candidates)].href = Absent
            THEN [value |-> None, raised |-> "KeyError"]
            ELSE [value |-> candidates[Len(candidates)].href, raised |-> None]

\* get_next with no handler for the IndexError of candidates[-1]
GetNextNoHandler(candidates) ==
    LET hits == SelectSeq(candidates, Qualifies)
    IN IF hits # <<>> THEN [value |-> hits[1].href, raised |-> None]
       ELSE IF candidates = <<>> THEN [value |-> None, raised |-> "IndexError"]
       ELSE IF candidates[Len(candidates)].href = Absent
            THEN [value |-> None, raised |-> "KeyError"]
            ELSE [value |-> candidates[Len(candidates)].href, raised |-> None]

\* get_next (lines 458-479) over the candidates find gave: the first candidate
\* that passes a test; else the last one's href (KeyError when it has none),
\* None when there is no candidate (the IndexError is caught)
GetNext(candidates) ==
    LET hits == SelectSeq(candidates, Qualifies)
    IN IF hits # <<>> THEN [value |-> hits[1].href, raised |-> None]
       ELSE IF candidates = <<>> THEN [value |-> None, raised |-> None]
       ELSE IF candidates[Len(candidates)].href = Absent
            THEN [value |-> None, raised |-> "KeyError"]
            ELSE [value |-> candidates[Len(candidates)].href, raised |-> None]

\* self.find('a', containing=next_symbol) (line 459)
Candidates(d, next_symbol) == FindElements(d.anchors, next_symbol)

\* HTML.next (lines 448-491): what it returns or raises, and the URL it asks
\* the Session for.  kind: "none", "url" or "response" (of the GET of value).
NextOf(d, fetch, next_symbol) ==
    LET got == GetNext(Candidates(d, next_symbol))
    IN IF got.raised # None
       THEN [kind |-> "none", value |-> None, raised |-> got.raised, requested |-> <<>>]
       ELSE IF ~Truthy(got.value)
       THEN [kind |-> "none", value |-> None, raised |-> None, requested |-> <<>>]
       ELSE LET url == MakeAbsolute(d, got.value)
            IN IF fetch
               THEN [kind |-> "response", value |-> url, raised |-> None,
                     requested |-> <<url>>]
               ELSE [kind |-> "url", value |-> url, raised |-> None, requested |-> <<>>]

\* The <a> elements pages are made of
AnchorCatalogue ==
    { Elem("Next", "/p2", "next", Absent),
      Elem("more", "/m", Absent, "btn next-btn"),
      Elem("older posts", "/page/3", Absent, Absent),
      Elem("more", "/x", Absent, "btn"),
      Elem("read MORE", "y", "prev nextpage", Absent),
      Elem("next", Absent, Absent, Absent),
      Elem("NEXT", "", "next", Absent),
      Elem("home", "/h", Absent, Absent) }

Page(url, bases, anchors) == [url |-> url, bases |-> bases, anchors |-> anchors]
MarkerLists == {DEFAULT_NEXT_SYMBOL, <<"older">>}

InitNext ==
    /\ doc \in {Page(Url1, <<>>, a) : a \in SeqsUpTo(AnchorCatalogue, MaxAnchors)}
    /\ nx = [pc |-> "ready", fetch |-> FALSE, next_symbol |-> <<>>,
             out |-> [kind |-> "none", value |-> None, raised |-> None,
                      requested |-> <<>>]]
    /\ view = Idle /\ session = Idle /\ call = Idle /\ att = Idle
    /\ pages = Idle /\ outcome = Idle
    /\ obj = Idle /\ web = Idle /\ iter = Idle
    /\ run = Idle /\ loop = Idle /\ query = Idle /\ marks = Idle

\* A call of next(fetch, next_symbol) on the page
CallNext ==
    /\ nx.pc = "ready"
    /\ \E fetch \in BOOLEAN, next_symbol \in MarkerLists :
          nx' = [pc |-> "returned", fetch |-> fetch, next_symbol |-> next_symbol,
                 out |-> NextOf(doc, fetch, next_symbol)]
    /\ UNCHANGED <<doc, web, iter>>
    /\ UNCHANGED <<renderVars, cacheVars, runVars, browserVars, queryVars, markerVars>>

NextNext == CallNext

SpecNext == InitNext /\ [][NextNext]_vars

----------------------------------------------------------------------------
(* Iteration over a Document View: __iter__, __aiter__ / __anext__ *)

P1 == "https://site.test/p1"
P2 == "https://site.test/p2"
P3 == "https://site.test/p3"
PageUrls == {P1, P2, P3}

\* The anchors a page of the web carries
LinkLists ==
    { <<Elem("Next", "/p2", "next", Absent)>>,
      <<Elem("more", "p3", Absent, "btn next-btn")>>,
      <<Elem("older posts", "/p1", Absent, Absent)>>,
      <<Elem("home", "/p1", Absent, Absent)>>,
      <<Elem("next", Absent, Absent, Absent)>> }

\* session.get(url).html (session.py lines 34-42, 91-95): the view of the page
\* the web serves at url
Fetch(url) ==
    IF url \in DOMAIN web THEN Page(url, <<>>, web[url]) ELSE Page(url, <<>>, <<>>)

NoItem == <<>>

InitIter ==
    /\ web \in [PageUrls -> LinkLists]
    /\ \E mode \in {"sync", "async"}, next_symbol \in MarkerLists :
          iter = [mode |-> mode,
                  pc |-> IF mode = "sync" THEN "yield" ELSE "anext",
                  self |-> P1, next_symbol |-> next_symbol,
                  next |-> P1, url |-> None,
                  produced |-> NoItem, raised |-> None, ended |-> FALSE]
    /\ view = Idle /\ session = Idle /\ call = Idle /\ att = Idle
    /\ pages = Idle /\ outcome = Idle
    /\ obj = Idle /\ doc = Idle /\ nx = Idle
    /\ run = Idle /\ loop = Idle /\ query = Idle /\ marks = Idle

\* __iter__ (lines 493-502): `yield next`
IterYield ==
    /\ iter.mode = "sync" /\ iter.pc = "yield"
    /\ Len(iter.produced) < MaxSteps
    /\ iter' = [iter EXCEPT !.produced = Append(@, iter.next), !.pc = "advance"]
    /\ UNCHANGED <<web, doc, nx>>
    /\ UNCHANGED <<renderVars, cacheVars, runVars, browserVars, queryVars, markerVars>>

\* __iter__: next = next.next(fetch=True, next_symbol=self.next_symbol).html;
\* the AttributeError of None.html ends the generator, any other error leaves it
IterAdvance ==
    /\ iter.mode = "sync" /\ iter.pc = "advance"
    /\ \E r \in {NextOf(Fetch(iter.next), TRUE, iter.next_symbol)} :
          iter' = IF r.raised # None
                  THEN [iter EXCEPT !.raised = r.raised, !.pc = "done"]
                  ELSE IF r.kind = "none"
                  THEN [iter EXCEPT !.ended = TRUE, !.pc = "done"]
                  ELSE [iter EXCEPT !.next = r.value, !.pc = "yield"]
    /\ UNCHANGED <<web, doc, nx>>
    /\ UNCHANGED <<renderVars, cacheVars, runVars, browserVars, queryVars, markerVars>>

\* __anext__ (lines 510-516) up to its await: url = self.next(fetch=False, ...);
\* `if not url: break` leaves the loop and the coroutine returns None
ANextFind ==
    /\ iter.mode = "async" /\ iter.pc = "anext"
    /\ Len(iter.produced) < MaxSteps
    /\ \E r \in {NextOf(Fetch(iter.self), FALSE, iter.next_symbol)} :
          iter' = IF r.raised # None
                  THEN [iter EXCEPT !.raised = r.raised, !.pc = "done"]
                  ELSE IF r.kind = "none"
                  THEN [iter EXCEPT !.produced = Append(@, None)]
                  ELSE [iter EXCEPT !.url = r.value, !.pc = "awaiting"]
    /\ UNCHANGED <<web, doc, nx>>
    /\ UNCHANGED <<renderVars, cacheVars, runVars, browserVars, queryVars, markerVars>>

\* __anext__ after `await self.session.get(url)`: return response.html
ANextFetched ==
    /\ iter.mode = "async" /\ iter.pc = "awaiting"
    /\ iter' = [iter EXCEPT !.produced = Append(@, iter.url), !.url = None,
                            !.pc = "anext"]
    /\ UNCHANGED <<web, doc, nx>>
    /\ UNCHANGED <<renderVars, cacheVars, runVars, browserVars, queryVars, markerVars>>

NextIter == IterYield \/ IterAdvance \/ ANextFind \/ ANextFetched

SpecIter == InitIter /\ [][NextIter]_vars

----------------------------------------------------------------------------
(* AsyncHTMLSession.run *)

\* What coroutine i returns
ResultOf(i) == 10 * i

\* The orders in which a set of the tasks 1..n can be iterated
Orders(n) == {o \in [1..n -> 1..n] : \A i, j \in 1..n : o[i] = o[j] => i = j}

InitRun ==
    /\ \E n \in 1..MaxCoros :
          run = [pc |-> "called", n |-> n, tasks |-> <<>>, done |-> <<>>,
                 results |-> <<>>]
    /\ view = Idle /\ session = Idle /\ call = Idle /\ att = Idle
    /\ pages = Idle /\ outcome = Idle
    /\ obj = Idle /\ doc = Idle /\ nx = Idle /\ web = Idle /\ iter = Idle
    /\ loop = Idle /\ query = Idle /\ marks = Idle

\* tasks = [asyncio.ensure_future(coro()) for coro in coros] (line 184)
CreateTasks ==
    /\ run.pc = "called"
    /\ run' = [run EXCEPT !.tasks = [i \in 1..run.n |-> "pending"], !.pc = "waiting"]
    /\ UNCHANGED <<renderVars, cacheVars, nextVars, iterVars, browserVars, queryVars, markerVars>>

\* Inside loop.run_until_complete(asyncio.wait(tasks)) (line 185): one of the
\* pending tasks finishes
TaskDone ==
    /\ run.pc = "waiting"
    /\ \E i \in 1..run.n :
          /\ run.tasks[i] = "pending"
          /\ run' = [run EXCEPT !.tasks[i] = "done", !.done = Append(@, i)]
    /\ UNCHANGED <<renderVars, cacheVars, nextVars, iterVars, browserVars, queryVars, markerVars>>

\* asyncio.wait returns `done` as a set once every task has finished;
\* [t.result() for t in done] (line 186) walks that set in the order of its
\* hash table, which the task objects' addresses decide
CollectResults ==
    /\ run.pc = "waiting"
    /\ \A i \in 1..run.n : run.tasks[i] = "done"
    /\ \E order \in Orders(run.n) :
          run' = [run EXCEPT !.results = [k \in 1..run.n |-> ResultOf(order[k])],
                             !.pc = "returned"]
    /\ UNCHANGED <<renderVars, cacheVars, nextVars, iterVars, browserVars, queryVars, markerVars>>

NextRun == CreateTasks \/ TaskDone \/ CollectResults

SpecRun == InitRun /\ [][NextRun]_vars

----------------------------------------------------------------------------
(* The Session's browser handle: BaseSession.browser, HTMLSession.browser *)

NoBrowser == 0          \* the session has no _browser attribute yet

NewAccess == [pc |-> "start", got |-> NoBrowser, raised |-> None, inLoop |-> FALSE]

\* The close of the Session: where it stands, how it was called (close, or
\* __aexit__ with or without an exception of the block), the handle it found
NotClosing == [pc |-> "idle", via |-> None, exc |-> FALSE, had |-> NoBrowser,
               raised |-> None]
\* What has been closed, in order
ClosedBrowser(b) == [what |-> "browser", id |-> b]
ClosedClient == [what |-> "client", id |-> 0]

\* A fresh Session and the accesses of its browser property that will be made:
\* coroutines of one event loop (AsyncHTMLSession, e.g. concurrent arender
\* calls at line 759) or successive calls on a blocking HTMLSession
InitBrowser ==
    /\ \E kind \in {"blocking", "async"}, n \in 1..MaxTasks, running \in BOOLEAN :
          /\ kind = "async" => running
          /\ loop = [kind |-> kind, running |-> running, browser |-> NoBrowser,
                     launches |-> 0, procs |-> [p \in 1..n |-> NewAccess],
                     client |-> "open", closed |-> <<>>, close |-> NotClosing]
    /\ view = Idle /\ session = Idle /\ call = Idle /\ att = Idle
    /\ pages = Idle /\ outcome = Idle
    /\ obj = Idle /\ doc = Idle /\ nx = Idle /\ web = Idle /\ iter = Idle
    /\ run = Idle /\ query = Idle /\ marks = Idle

\* BaseSession.browser up to its await (lines 102-103): with a handle stored it
\* returns it (line 107), else it awaits pyppeteer.launch
AwaitBrowser ==
    /\ loop.kind = "async"
    /\ \E p \in DOMAIN loop.procs :
          /\ loop.procs[p].pc = "start"
          /\ loop' = IF loop.browser # NoBrowser
                     THEN [loop EXCEPT !.procs[p].pc = "done",
                                       !.procs[p].got = loop.browser,
                                       !.procs[p].inLoop = loop.running]
                     ELSE [loop EXCEPT !.procs[p].pc = "launching",
                                       !.procs[p].inLoop = loop.running]
    /\ UNCHANGED <<renderVars, cacheVars, nextVars, iterVars, runVars, queryVars, markerVars>>

\* BaseSession.browser after the await (lines 103-107): the launched browser is
\* stored and returned
BrowserLaunched ==
    /\ loop.kind = "async"
    /\ \E p \in DOMAIN loop.procs :
          /\ loop.procs[p].pc = "launching"
          /\ loop' = [loop EXCEPT !.launches = @ + 1,
                                  !.browser = loop.launches + 1,
                                  !.procs[p].pc = "done",
                                  !.procs[p].got = loop.launches + 1]
    /\ UNCHANGED <<renderVars, cacheVars, nextVars, iterVars, runVars, queryVars, markerVars>>

\* HTMLSession.browser (lines 112-120): with a handle stored it returns it;
\* else it refuses inside a running event loop and otherwise runs
\* BaseSession.browser to completion
BlockingBrowser ==
    /\ loop.kind = "blocking"
    /\ \E p \in DOMAIN loop.procs :
          /\ loop.procs[p].pc = "start"
          /\ loop' = IF loop.browser # NoBrowser
                     THEN [loop EXCEPT !.procs[p].pc = "done",
                                       !.procs[p].got = loop.browser,
                                       !.procs[p].inLoop = loop.running]
                     ELSE IF loop.running
                     THEN [loop EXCEPT !.procs[p].pc = "done",
                                       !.procs[p].raised = "RuntimeError",
                                       !.procs[p].inLoop = loop.running]
                     ELSE [loop EXCEPT !.launches = @ + 1,
                                       !.browser = loop.launches + 1,
                                       !.procs[p].pc = "done",
                                       !.procs[p].got = loop.launches + 1,
                                       !.procs[p].inLoop = loop.running]
    /\ UNCHANGED <<renderVars, cacheVars, nextVars, iterVars, runVars, queryVars, markerVars>>

\* The program that uses the blocking session goes on inside a coroutine of a
\* running event loop, or comes back out of it
SwitchLoop ==
    /\ loop.kind = "blocking"
    /\ loop' = [loop EXCEPT !.running = ~@]
    /\ UNCHANGED <<renderVars, cacheVars, nextVars, iterVars, runVars, queryVars, markerVars>>

\* super().close() (lines 127, 177): httpx.Client.close closes the HTTP client;
\* __aexit__ then raises the exception of the block again (lines 163-164)
CloseClient(l) ==
    [l EXCEPT !.client = "closed", !.closed = Append(@, ClosedClient),
              !.close.pc = "done",
              !.close.raised = IF l.close.exc THEN "block exception" ELSE None]

\* HTMLSession.close (lines 122-127): with a handle stored it runs
\* browser.close() to completion on self.loop, which raises RuntimeError when
\* an event loop is running; then it closes the HTTP client
BlockingClose ==
    /\ loop.kind = "blocking"
    /\ loop.close.pc = "idle"
    /\ LET l == [loop EXCEPT !.close.via = "close", !.close.had = loop.browser]
       IN loop' = IF loop.browser = NoBrowser THEN CloseClient(l)
                  ELSE IF loop.running
                  THEN [l EXCEPT !.close.pc = "done", !.close.raised = "RuntimeError"]
                  ELSE CloseClient([l EXCEPT !.closed = Append(@, ClosedBrowser(loop.browser))])
    /\ UNCHANGED <<renderVars, cacheVars, nextVars, iterVars, runVars, queryVars, markerVars>>

\* AsyncHTMLSession.close up to its await (lines 175-176), called directly or
\* by __aexit__ (lines 157-159): with a handle stored it awaits
\* browser.close(), else it closes the HTTP client at once
AsyncClose ==
    /\ loop.kind = "async"
    /\ loop.close.pc = "idle"
    /\ \E via \in {"close", "__aexit__"}, exc \in BOOLEAN :
          /\ via = "close" => ~exc
          /\ LET l == [loop EXCEPT !.close.via = via, !.close.exc = exc,
                                   !.close.had = loop.browser]
             IN loop' = IF loop.browser = NoBrowser THEN CloseClient(l)
                        ELSE [l EXCEPT !.close.pc = "closing browser"]
    /\ UNCHANGED <<renderVars, cacheVars, nextVars, iterVars, runVars, queryVars, markerVars>>

\* AsyncHTMLSession.close after its await (lines 176-177): the browser is
\* closed, then the HTTP client
AsyncBrowserClosed ==
    /\ loop.close.pc = "closing browser"
    /\ loop' = CloseClient([loop EXCEPT !.closed = Append(@, ClosedBrowser(loop.close.had))])
    /\ UNCHANGED <<renderVars, cacheVars, nextVars, iterVars, runVars, queryVars, markerVars>>

NextBrowser ==
    \/ AwaitBrowser \/ BrowserLaunched \/ BlockingBrowser \/ SwitchLoop
    \/ BlockingClose \/ AsyncClose \/ AsyncBrowserClosed

SpecBrowser == InitBrowser /\ [][NextBrowser]_vars

----------------------------------------------------------------------------
(* find, links, absolute_links, base_url and _make_absolute on a document *)

\* BaseParser.links (lines 286-301) with the view's skip_anchors setting
PassesFilter(href, skip_anchors) ==
    /\ href # ""
    /\ ~(StartsWith(href, "#") /\ skip_anchors)
    /\ ~StartsWith(href, "javascript:")
    /\ ~StartsWith(href, "mailto:")
Links(d, skip_anchors) ==
    LET found == FindElements(d.anchors, <<>>)
    IN {Strip(found[i].href) :
           i \in {j \in 1..Len(found) :
                     /\ found[j].href # Absent
                     /\ PassesFilter(Strip(found[j].href), skip_anchors)}}

\* BaseParser.absolute_links (lines 324-333)
AbsoluteLinks(d, skip_anchors) == {MakeAbsolute(d, link) : link \in Links(d, skip_anchors)}

\* find(selector, containing=..., first=...) (lines 161-224) for the selectors
\* 'a' and 'base'; with first=True the result is a list of length 0 (None) or 1
Find(d, selector, containing, first) ==
    LET found == FindElements(IF selector = "base" THEN d.bases ELSE d.anchors,
                              containing)
    IN IF first THEN First(found) ELSE found

\* The <a> elements of the documents
LinkCatalogue ==
    { Elem("Foo one", "x.html", Absent, Absent),
      Elem("a FOO b", "//other.test/p", Absent, Absent),
      Elem("bar", " /abs ", Absent, Absent),
      Elem("call", "tel:123", Absent, Absent),
      Elem("top foo", "#top", Absent, Absent) }
DefaultAnchors ==
    << Elem("Foo one", "x.html", Absent, Absent),
       Elem("Mail", "mailto:a@b.c", Absent, Absent),
       Elem("bar", Absent, Absent, Absent),
       Elem("top foo", "#top", Absent, Absent) >>
\* The <base> elements of the documents
Base(href) == Elem("", href, Absent, Absent)
BaseLists ==
    { <<>>,
      <<Base("https://cdn.test/lib/")>>,
      <<Base(" https://cdn.test/lib/ ")>>,
      <<Base("sub/")>>,
      <<Base("  ")>>,
      <<Base(Absent)>>,
      <<Base(""), Base("https://cdn.test/lib/")>> }
DocUrls == {Url1, "https://site.test", "https://site.test/a/b?q=1", DEFAULT_URL}
\* The lists find is given as `containing` (<<>>: not given)
ContainingLists == {<<>>, <<"foo">>, <<"Bar", "top">>}
\* The links _make_absolute is given
LinkArgs == {"x.html", "../up", "/abs", "//other.test/p", "https://other.test/p?q#f",
             "tel:123", ""}

NoResult == <<>>

InitQuery ==
    /\ \E d \in {Page(Url1, <<>>, a) : a \in SeqsUpTo(LinkCatalogue, MaxLinks)}
              \cup {Page(u, b, DefaultAnchors) : u \in DocUrls, b \in BaseLists},
          skip_anchors \in BOOLEAN :
          /\ (d.bases = <<>> /\ d.url = Url1) => skip_anchors
          /\ query = [pc |-> "ready", d |-> d, skip_anchors |-> skip_anchors,
                      op |-> None, arg |-> NoResult, out |-> NoResult,
                      again |-> NoResult]
    /\ view = Idle /\ session = Idle /\ call = Idle /\ att = Idle
    /\ pages = Idle /\ outcome = Idle
    /\ obj = Idle /\ doc = Idle /\ nx = Idle /\ web = Idle /\ iter = Idle
    /\ run = Idle /\ loop = Idle /\ marks = Idle

\* d.find('a', containing=..., first=...)
CallFind ==
    /\ query.pc = "ready"
    /\ \E containing \in ContainingLists, first \in BOOLEAN :
          query' = [query EXCEPT !.pc = "returned", !.op = "find",
                                 !.arg = <<containing, first>>,
                                 !.out = Find(query.d, "a", containing, first)]
    /\ UNCHANGED <<renderVars, cacheVars, nextVars, iterVars, runVars, browserVars, markerVars>>

\* d.links
CallLinks ==
    /\ query.pc = "ready"
    /\ query' = [query EXCEPT !.pc = "returned", !.op = "links",
                              !.out = Links(query.d, query.skip_anchors)]
    /\ UNCHANGED <<renderVars, cacheVars, nextVars, iterVars, runVars, browserVars, markerVars>>

\* d.absolute_links
CallAbsoluteLinks ==
    /\ query.pc = "ready"
    /\ query' = [query EXCEPT !.pc = "returned", !.op = "absolute_links",
                              !.out = AbsoluteLinks(query.d, query.skip_anchors)]
    /\ UNCHANGED <<renderVars, cacheVars, nextVars, iterVars, runVars, browserVars, markerVars>>

\* d.base_url
CallBaseUrl ==
    /\ query.pc = "ready"
    /\ query' = [query EXCEPT !.pc = "returned", !.op = "base_url",
                              !.out = BaseUrl(query.d)]
    /\ UNCHANGED <<renderVars, cacheVars, nextVars, iterVars, runVars, browserVars, markerVars>>

\* d._make_absolute(link)
CallMakeAbsolute ==
    /\ query.pc = "ready"
    /\ \E link \in LinkArgs :
          query' = [query EXCEPT !.pc = "returned", !.op = "_make_absolute",
                                 !.arg = link,
                                 !.out = MakeAbsolute(query.d, link)]
    /\ UNCHANGED <<renderVars, cacheVars, nextVars, iterVars, runVars, browserVars, markerVars>>

\* d._make_absolute(resolved) on the link a call of _make_absolute returned
CallMakeAbsoluteAgain ==
    /\ query.pc = "returned" /\ query.op = "_make_absolute"
    /\ query' = [query EXCEPT !.pc = "resolved twice",
                              !.again = MakeAbsolute(query.d, query.out)]
    /\ UNCHANGED <<renderVars, cacheVars, nextVars, iterVars, runVars, browserVars, markerVars>>

\* BaseParser.xpath (lines 251-268).  The selector '//a' selects the <a>
\* elements, the sub-selector '//a/@href' their href values, which lxml gives
\* as _ElementUnicodeResult and line 255 turns into plain str items.
XPathSelectors == {"//a", "//a/@href"}
HasHref(el) == el.href # Absent
Selected(d, selector) ==
    IF selector = "//a"
    THEN [i \in 1..Len(d.anchors) |->
             [kind |-> "Element", item |-> d.anchors[i], sanitized |-> FALSE]]
    ELSE LET with == SelectSeq(d.anchors, HasHref)
         IN [i \in 1..Len(with) |->
                [kind |-> "str", item |-> with[i].href, sanitized |-> FALSE]]
\* Lines 260-266: `element.lxml` of a str item raises AttributeError
XPath(d, selector, clean, first) ==
    LET elements == Selected(d, selector)
    IN IF clean /\ \E i \in 1..Len(elements) : elements[i].kind = "str"
       THEN [raised |-> "AttributeError", value |-> <<>>]
       ELSE LET cleaned == [i \in 1..Len(elements) |->
                               [elements[i] EXCEPT !.sanitized = clean]]
            IN [raised |-> None, value |-> IF first THEN First(cleaned) ELSE cleaned]

\* d.xpath(selector, clean=..., first=...)
CallXPath ==
    /\ query.pc = "ready"
    /\ \E selector \in XPathSelectors, clean \in BOOLEAN, first \in BOOLEAN :
          query' = [query EXCEPT !.pc = "returned", !.op = "xpath",
                                 !.arg = <<selector, clean, first>>,
                                 !.out = XPath(query.d, selector, clean, first)]
    /\ UNCHANGED <<renderVars, cacheVars, nextVars, iterVars, runVars, browserVars, markerVars>>

NextQuery ==
    \/ CallFind \/ CallLinks \/ CallAbsoluteLinks \/ CallBaseUrl
    \/ CallMakeAbsolute \/ CallMakeAbsoluteAgain \/ CallXPath

SpecQuery == InitQuery /\ [][NextQuery]_vars

----------------------------------------------------------------------------
(* The marker lists of Document Views: HTML.__init__, add_next_symbol, next *)

\* Python lists are objects: a view's next_symbol slot holds a reference to a
\* list, and list.append changes the list every reference leads to.  The one
\* list object the code creates is the module's DEFAULT_NEXT_SYMBOL (line 38).
ListObjects == {"DEFAULT_NEXT_SYMBOL"}
Tokens == {"siguiente", "weiter"}
NoList == <<"<no call>">>

\* The program starts with the module imported and no view
InitMarkers ==
    /\ marks = [heap |-> [o \in ListObjects |-> DEFAULT_NEXT_SYMBOL],
                next_symbol |-> <<>>,     \* by view: the list its slot refers to
                added |-> <<>>,           \* by view: the tokens added through it
                adds |-> 0,
                default |-> NoList,       \* the list a next() without a list used
                iterated |-> NoList]      \* the list an iteration over a view used
    /\ view = Idle /\ session = Idle /\ call = Idle /\ att = Idle
    /\ pages = Idle /\ outcome = Idle
    /\ obj = Idle /\ doc = Idle /\ nx = Idle /\ web = Idle /\ iter = Idle
    /\ run = Idle /\ loop = Idle /\ query = Idle

\* HTML.__init__ (line 443): self.next_symbol = DEFAULT_NEXT_SYMBOL
CreateView ==
    /\ Len(marks.next_symbol) < MaxViews
    /\ marks' = [marks EXCEPT !.next_symbol = Append(@, "DEFAULT_NEXT_SYMBOL"),
                              !.added = Append(@, <<>>)]
    /\ UNCHANGED <<renderVars, cacheVars, nextVars, iterVars, runVars, browserVars, queryVars>>

\* add_next_symbol (lines 518-519): self.next_symbol.append(next_symbol)
AddNextSymbol ==
    /\ marks.adds < MaxAdded
    /\ \E v \in 1..Len(marks.next_symbol), t \in Tokens :
          marks' = [marks EXCEPT !.heap[marks.next_symbol[v]] = Append(@, t),
                                 !.added[v] = Append(@, t),
                                 !.adds = @ + 1]
    /\ UNCHANGED <<renderVars, cacheVars, nextVars, iterVars, runVars, browserVars, queryVars>>

\* next() without a list (line 451): the default of the parameter is the
\* DEFAULT_NEXT_SYMBOL object, read when the call is made
NextWithDefault ==
    /\ marks.next_symbol # <<>>
    /\ marks' = [marks EXCEPT !.default = marks.heap["DEFAULT_NEXT_SYMBOL"]]
    /\ UNCHANGED <<renderVars, cacheVars, nextVars, iterVars, runVars, browserVars, queryVars>>

\* An iteration step on a view (lines 500, 505, 512): next_symbol=self.next_symbol
IterateView ==
    /\ \E v \in 1..Len(marks.next_symbol) :
          marks' = [marks EXCEPT !.iterated = marks.heap[marks.next_symbol[v]]]
    /\ UNCHANGED <<renderVars, cacheVars, nextVars, iterVars, runVars, browserVars, queryVars>>

NextMarkers == CreateView \/ AddNextSymbol \/ NextWithDefault \/ IterateView

SpecMarkers == InitMarkers /\ [][NextMarkers]_vars

----------------------------------------------------------------------------
(* Claims about render *)

Done == call.pc = "done"
\* every attempt started so far raised TimeoutError
OnlyTimeouts == call.timeouts = call.attempts
\* the blocking session refused to work inside a running event loop
Refused == outcome.kind = "RuntimeError"

\* C1: a render call whose first k attempts time out (k < retries) and whose
\* attempt k+1 produces content succeeds after exactly k+1 attempts: the call
\* does not end while only timeouts have happened and budget is left, a call
\* that produced content returns, no attempt starts once content is there,
\* and no timeout (or error from handling it) reaches the caller.
C1_SucceedsAfterKPlusOne ==
    /\ (Done /\ ~Refused /\ OnlyTimeouts) => call.attempts >= call.retries
    /\ (Done /\ Truthy(call.content)) => outcome.kind = "returned"
    /\ Truthy(call.content) => call.pc \in {"loop", "finish", "done"}
    /\ outcome.kind \notin {"TimeoutError", "UnboundLocalError"}

\* C2: when every attempt times out, render raises MaxRetries after exactly
\* `retries` attempts (also for retries = 0, with no attempt), and MaxRetries
\* is raised only when no attempt produced content.
C2_MaxRetriesAfterNTimeouts ==
    /\ (Done /\ ~Refused /\ OnlyTimeouts)
          => (outcome.kind = "MaxRetries" /\ call.attempts = call.retries)
    /\ outcome.kind = "MaxRetries" => ~Truthy(call.content)

\* C3: a TimeoutError raised at any browser step of an attempt is handled
\* inside the attempt: the handler closes the attempt's page, render goes back
\* to the head of its loop and nothing is raised to the caller.
C3_TimeoutRecoveredLocally ==
    [][call.pc = "except" =>
          /\ call'.pc = "loop"
          /\ outcome' = outcome
          /\ att.page # Unbound => pages'[att.page].state = "closed"]_vars

\* C4: once an attempt has produced content and render is over, the view holds
\* the captured content under the same URL and none of its caches (encoding,
\* tree, selector handle) is the one computed from the content before render.
C4_ViewReplacedByRendered ==
    (Done /\ Truthy(call.content)) =>
        /\ outcome.kind = "returned"
        /\ view.html = call.content
        /\ view.lxml \in {None, call.content}
        /\ view.pq \in {None, call.content}

\* C19: after a render in which an attempt produced content, render has
\* returned the script's result of that attempt (absent without a script,
\* never the content), and the view's page handle is the attempt's open page
\* if keep_page was asked for, else absent with that page closed.
C19_PageKeptOnlyOnRequest ==
    (Done /\ Truthy(call.content)) =>
        /\ outcome.kind = "returned"
        /\ outcome.value = call.result /\ outcome.value # call.content
        /\ call.script = None => outcome.value = None
        /\ IF call.keep_page
           THEN /\ view.page = att.page
                /\ pages[att.page].state = "open"
           ELSE /\ view.page = NoPage
                /\ pages[att.page].state = "closed"

----------------------------------------------------------------------------
(* Claims about next *)

NextReturned == nx.pc = "returned"
\* positions, in document order, of the anchors whose text contains a marker
MatchIdx ==
    {i \in 1..Len(doc.anchors) : ContainsAny(doc.anchors[i], nx.next_symbol)}
\* those with a usable href
HrefIdx == {i \in MatchIdx : Truthy(AttrGet(doc.anchors[i].href, None))}
RelIdx == {i \in HrefIdx : RelNext(doc.anchors[i])}
ClassIdx == {i \in HrefIdx : ClassNext(doc.anchors[i])}
PageIdx == {i \in HrefIdx : HrefPage(doc.anchors[i])}
QualIdx == {i \in MatchIdx : Qualifies(doc.anchors[i])}
LinkAt(i) == MakeAbsolute(doc, doc.anchors[i].href)
GaveLink(url) ==
    /\ nx.out.raised = None
    /\ nx.out.kind = (IF nx.fetch THEN "response" ELSE "url")
    /\ nx.out.value = url

\* C6 as stated: the rules are a priority order over all candidates: when a
\* candidate with an href has the rel token next, the link of such a
\* candidate is chosen; otherwise, when one has a class name containing next,
\* the link of such a candidate is chosen.
C6_RulesRankedOverAll ==
    NextReturned =>
        /\ RelIdx # {} => \E i \in RelIdx : GaveLink(LinkAt(i))
        /\ (RelIdx = {} /\ ClassIdx # {}) => \E i \in ClassIdx : GaveLink(LinkAt(i))

\* C6: next returns the link of the candidate that comes last in document
\* order among the candidates with an href that satisfy any of the three rules
\* (rel token next, class name containing next, href containing page); the
\* rules are not ranked against each other across candidates.
C6_LastQualifyingInDocumentWins ==
    NextReturned => \A hits \in {QualIdx} : hits # {} => GaveLink(LinkAt(Max(hits)))

\* a rel=next candidate loses to a later candidate that only satisfies a
\* lower rule
C6_Witness ==
    /\ NextReturned /\ QualIdx # {}
    /\ Max(QualIdx) \notin RelIdx
    /\ \E i \in RelIdx : LinkAt(i) # LinkAt(Max(QualIdx))
    /\ GaveLink(LinkAt(Max(QualIdx)))

\* C7 as stated: with several candidates of which none satisfies a rule, next
\* returns the link of the candidate that comes last in document order.
C7_FallbackIsLastInScanOrder ==
    (/\ NextReturned /\ Cardinality(MatchIdx) >= 2 /\ QualIdx = {}
     /\ Max(MatchIdx) \in HrefIdx)
        => GaveLink(LinkAt(Max(MatchIdx)))

\* C7: with candidates of which none satisfies a rule, the fallback takes the
\* candidate that comes FIRST in document order (the last of the reversed
\* list find returns): next returns its link when its href is non-empty and
\* the absent value when its href is empty; when it has no href attribute the
\* lookup raises KeyError.
C7_FallbackIsFirstInScanOrder ==
    NextReturned => \A found \in {MatchIdx} :
        (found # {} /\ \A i \in found : ~Qualifies(doc.anchors[i])) =>
            LET first == doc.anchors[Min(found)]
            IN IF first.href = Absent THEN nx.out.raised = "KeyError"
               ELSE IF first.href = ""
               THEN nx.out.kind = "none" /\ nx.out.raised = None
               ELSE GaveLink(LinkAt(Min(found)))

\* several candidates, none satisfying a rule, the first and the last with
\* different links: the first one's link is returned
C7_Witness ==
    /\ NextReturned /\ Cardinality(MatchIdx) >= 2 /\ QualIdx = {}
    /\ Min(MatchIdx) \in HrefIdx /\ Max(MatchIdx) \in HrefIdx
    /\ LinkAt(Min(MatchIdx)) # LinkAt(Max(MatchIdx))
    /\ GaveLink(LinkAt(Min(MatchIdx)))

\* C10: on a page in which no anchor's text contains a marker,
\* next(fetch=False) returns the absent value, raises nothing and asks the
\* Session for nothing.
C10_NoCandidateGivesAbsent ==
    (NextReturned /\ ~nx.fetch /\ MatchIdx = {}) =>
        /\ nx.out.kind = "none" /\ nx.out.value = None
        /\ nx.out.raised = None
        /\ nx.out.requested = <<>>

\* a page with anchors, none of them a candidate, asked without fetching
C10_Witness ==
    /\ NextReturned /\ ~nx.fetch /\ MatchIdx = {}
    /\ Len(doc.anchors) >= 2
    /\ nx.out.kind = "none" /\ nx.out.raised = None

\* C11: next(fetch=False) never raises: on every page, also one whose
\* marker-matching anchors carry no href attribute, it returns the absent
\* value or an absolute URL string.
C11_NextNeverRaises ==
    (NextReturned /\ ~nx.fetch) =>
        /\ nx.out.raised = None
        /\ \/ nx.out.kind = "none" /\ nx.out.value = None
           \/ /\ nx.out.kind = "url"
              /\ \E u \in {UrlParse(nx.out.value, "")} : u.scheme # "" /\ u.netloc # ""

----------------------------------------------------------------------------
(* Claims about iteration *)

\* C8: synchronous iteration yields the current page first, then each page
\* next(fetch=True) reaches from the page last yielded, and ends by
\* terminating (never by an error) at a page without a next link.
C8_SyncIterationVisitsChain ==
    iter.mode = "sync" =>
        /\ iter.raised = None
        /\ iter.produced # <<>> => iter.produced[1] = iter.self
        /\ \A i \in 1..(Len(iter.produced) - 1) :
              iter.produced[i + 1] =
                  NextOf(Fetch(iter.produced[i]), TRUE, iter.next_symbol).value
        /\ iter.ended =>
              NextOf(Fetch(iter.produced[Len(iter.produced)]), TRUE,
                     iter.next_symbol).kind = "none"

\* C9: asynchronous iteration follows the same algorithm: every item it
\* produces is a page, each step advances from the page last produced, and a
\* page without a next link ends the iteration instead of producing an item.
C9_AsyncIterationFollowsChain ==
    iter.mode = "async" =>
        /\ iter.raised = None
        /\ \A i \in 1..Len(iter.produced) : iter.produced[i] # None
        /\ \A i \in 1..(Len(iter.produced) - 1) :
              iter.produced[i + 1] =
                  NextOf(Fetch(iter.produced[i]), FALSE, iter.next_symbol).value

----------------------------------------------------------------------------
(* Claims about AsyncHTMLSession.run *)

\* C12: run(c1, ..., cn) returns a list of n results in which position i holds
\* the result of coroutine ci, whatever the order in which the tasks finished.
C12_ResultsInCoroutineOrder ==
    run.pc = "returned" =>
        /\ Len(run.results) = run.n
        /\ \A i \in 1..run.n : run.results[i] = ResultOf(i)

----------------------------------------------------------------------------
(* Claims about the browser handle *)

\* C13: under every interleaving of the accesses of one Session's browser
\* handle, the browser is launched at most once and every access returns the
\* same handle.
C13_BrowserLaunchedOnce ==
    /\ loop.launches <= 1
    /\ \A p, q \in DOMAIN loop.procs :
          (loop.procs[p].got # NoBrowser /\ loop.procs[q].got # NoBrowser)
              => loop.procs[p].got = loop.procs[q].got

\* C14: an access of a blocking session's browser handle made while an event
\* loop is running fails with an error and returns no handle, whether or not
\* the session already holds a handle.
C14_BlockingRefusesInLoop ==
    loop.kind = "blocking" =>
        \A p \in DOMAIN loop.procs :
            (loop.procs[p].pc = "done" /\ loop.procs[p].inLoop)
                => (loop.procs[p].raised # None /\ loop.procs[p].got = NoBrowser)

----------------------------------------------------------------------------
(* Claims about find and the Link Resolver *)

Returned(op) == query.pc = "returned" /\ query.op = op
\* positions, in document order, of the anchors whose text contains, ignoring
\* case, one of the substrings
TextHits(containing) ==
    {i \in 1..Len(query.d.anchors) :
        \E k \in 1..Len(containing) :
            Contains(Lower(query.d.anchors[i].text), Lower(containing[k]))}
HasSchemeAndHost(url) ==
    \E u \in {UrlParse(url, "")} : u.scheme # "" /\ u.netloc # ""

\* C15: find without containing returns the matches in document order; find
\* with containing returns exactly the matches whose text contains, ignoring
\* case, one of the substrings, in the reverse of document order.
C15_FindFiltersAndReverses ==
    (Returned("find") /\ ~query.arg[2]) =>
        \A hits \in {TextHits(query.arg[1])} :
            IF query.arg[1] = <<>> THEN query.out = query.d.anchors
            ELSE /\ Len(query.out) = Cardinality(hits)
                 /\ \A k \in 1..Len(query.out) :
                       \E i \in hits :
                          /\ Cardinality({j \in hits : j > i}) = k - 1
                          /\ query.out[k] = query.d.anchors[i]

\* three matches of which two contain the substring in another case: the later
\* one is returned first
C15_Witness ==
    /\ Returned("find") /\ ~query.arg[2] /\ query.arg[1] = <<"foo">>
    /\ Len(query.d.anchors) = 3 /\ TextHits(<<"foo">>) = {1, 3}
    /\ query.out = <<query.d.anchors[3], query.d.anchors[1]>>
    /\ query.d.anchors[1] # query.d.anchors[3]
    /\ ~Contains(query.d.anchors[1].text, "foo")

\* C16: every element of absolute_links has a scheme and a host.
C16_AbsoluteLinksHaveSchemeAndHost ==
    Returned("absolute_links") => \A link \in query.out : HasSchemeAndHost(link)

\* the href of the first <base> tag is present and not blank
FirstBaseUsable ==
    /\ query.d.bases # <<>>
    /\ query.d.bases[1].href # Absent
    /\ \E i \in 1..Len(query.d.bases[1].href) : SubSeq(query.d.bases[1].href, i, i) # " "
\* s is x without the blanks around it
IsTrimmed(x, s) ==
    /\ s # "" /\ SubSeq(s, 1, 1) # " " /\ SubSeq(s, Len(s), Len(s)) # " "
    /\ \E i \in 1..Len(x) :
          /\ SubSeq(x, i, i + Len(s) - 1) = s
          /\ \A j \in (1..(i - 1)) \cup ((i + Len(s))..Len(x)) : SubSeq(x, j, j) = " "
\* dir is url with the last segment of its path removed
IsDirectoryOf(url, dir) ==
    \E u \in {UrlParse(url, "")}, o \in {UrlParse(dir, "")} :
        /\ o.scheme = u.scheme /\ o.netloc = u.netloc
        /\ o.query = u.query /\ o.fragment = u.fragment
        /\ \E cuts \in {{i \in 1..Len(u.path) : SubSeq(u.path, i, i) = "/"}} :
              o.path = IF cuts = {} THEN "/" ELSE SubSeq(u.path, 1, Max(cuts))

\* C17 as stated: with a base tag whose href X is not blank, base_url is X
\* character for character; with no base tag or a blank href it is the
\* document URL without its last path segment.
C17_BaseUrlVerbatim ==
    Returned("base_url") =>
        \A usable \in {{i \in 1..Len(query.d.bases) :
                          /\ query.d.bases[i].href # Absent
                          /\ Strip(query.d.bases[i].href) # ""}} :
            IF usable # {} THEN \E i \in usable : query.out = query.d.bases[i].href
            ELSE IsDirectoryOf(query.d.url, query.out)

\* C17: when the FIRST base tag of the document has an href that is not blank,
\* base_url is that href without the blanks around it; otherwise (no base tag,
\* or a first base tag with a blank or missing href) it is the document URL
\* without its last path segment.
C17_BaseUrlFirstTagStripped ==
    Returned("base_url") =>
        IF FirstBaseUsable THEN IsTrimmed(query.d.bases[1].href, query.out)
        ELSE IsDirectoryOf(query.d.url, query.out)

\* a base href with blanks around it: base_url is the href without them
C17_Witness ==
    /\ Returned("base_url") /\ FirstBaseUsable
    /\ query.out # query.d.bases[1].href
    /\ IsTrimmed(query.d.bases[1].href, query.out)

\* C18: resolving a resolved link gives the same link, and a link that has a
\* scheme and a host is returned unchanged.
C18_ResolveIdempotent ==
    /\ query.pc = "resolved twice" => query.again = query.out
    /\ (Returned("_make_absolute") /\ HasSchemeAndHost(query.arg))
          => query.out = query.arg

\* the link next() finds on the page served at url
NextLinkOf(url) == NextOf(Fetch(url), FALSE, iter.next_symbol).value
\* the pages the iteration has fetched so far, in order
Fetched ==
    IF iter.mode = "sync" THEN SubSeq(iter.produced, 2, Len(iter.produced))
    ELSE SelectSeq(iter.produced, LAMBDA item : item # None)

\* C20: traversal is sequential in both modes: the first URL fetched is the
\* next link of the page the iteration started on, every later one is the
\* next link of the page fetched just before it, and so is a fetch in flight.
C20_TraversalSequential ==
    /\ \A i \in 1..Len(Fetched) :
          Fetched[i] = NextLinkOf(IF i = 1 THEN iter.self ELSE Fetched[i - 1])
    /\ iter.pc = "awaiting" =>
          iter.url = NextLinkOf(IF Fetched = <<>> THEN iter.self
                                ELSE Fetched[Len(Fetched)])

----------------------------------------------------------------------------
(* Claims about the encoding of a view *)

\* C21: once the encoding of a view with raw content has been resolved from
\* that content, it is the sniffed encoding when the content decodes with it,
\* and the provided default encoding when it does not.
C21_FallbackToDefaultEncoding ==
    (obj.html # NoBytes /\ obj.encoding.src = obj.html) =>
        obj.encoding.value =
            IF Undecodable(obj.html, Sniff(obj.default_encoding, obj.html))
            THEN obj.default_encoding
            ELSE Sniff(obj.default_encoding, obj.html)

----------------------------------------------------------------------------
(* Claims about the steps of a render attempt *)

NonEmptyCookie(c) == c # EmptyCookie

\* The cookies a render call is to inject: those of the Session's jar when
\* send_cookies_session is set, the caller's list otherwise.
CookiesToInject ==
    SelectSeq(IF call.send_cookies_session THEN session.cookies ELSE call.cookies,
              NonEmptyCookie)

\* C22: the steps of an attempt come in order: keys are pressed and the script
\* is evaluated only on a page that has navigated, a page that has navigated
\* has its user agent set and carries exactly the non-empty cookies to inject
\* (the Session jar's cookies when send_cookies_session is set), and content
\* is captured only after the scroll step.
C22_AttemptStepsInOrder ==
    /\ \A p \in 1..Len(pages) :
        /\ pages[p].keys > 0 => pages[p].target # None
        /\ pages[p].target # None =>
              /\ "User-Agent" \in session.headers => pages[p].agent # None
              /\ pages[p].cookies = CookiesToInject
    /\ att.result # None => pages[att.page].target # None
    /\ att.content # None => call.pc \in {"return", "loop", "finish", "done"}

\* The step order alone, with the cookies the loop at lines 546-549 was handed
C22_OrderOfSteps ==
    /\ \A p \in 1..Len(pages) :
        /\ pages[p].keys > 0 => pages[p].target # None
        /\ pages[p].target # None =>
              /\ "User-Agent" \in session.headers => pages[p].agent # None
              /\ pages[p].cookies = SelectSeq(call.cookies, NonEmptyCookie)
    /\ att.result # None => pages[att.page].target # None
    /\ att.content # None => call.pc \in {"return", "loop", "finish", "done"}


\* C23: a page that has navigated went to the data URL of the cached content
\* when the view's URL is the placeholder URL, whatever reload the caller
\* passed; for any other URL it went to the live URL iff the caller passed
\* reload = TRUE.
C23_PlaceholderNeverReloaded ==
    \A p \in 1..Len(pages) :
        pages[p].target # None =>
            pages[p].target = IF view.url # DEFAULT_URL /\ call.reload_arg
                              THEN view.url ELSE DataUrl

\* A render of a placeholder-URL view called with reload = TRUE has navigated
C23_Witness ==
    /\ view.url = DEFAULT_URL /\ call.reload_arg
    /\ \E p \in 1..Len(pages) : pages[p].target = DataUrl

----------------------------------------------------------------------------
(* Claims about xpath *)

\* C24: xpath(selector, clean=True) does not fail, whatever the selector, and
\* every Element View it returns is sanitized; the plain strings a sub-selector
\* gives are returned as they are.
C24_XPathCleanNeverFails ==
    (query.op = "xpath" /\ query.arg[2]) =>
        /\ query.out.raised = None
        /\ \A i \in 1..Len(query.out.value) :
              query.out.value[i].kind = "Element" => query.out.value[i].sanitized

----------------------------------------------------------------------------
(* Claims about closing a Session *)

\* C25: once a close of a Session is over, what it has closed is the browser
\* and then the HTTP client when the Session held a browser, and the HTTP
\* client alone when it held none; the close has launched no browser.
C25_CloseBrowserThenClient ==
    loop.close.pc = "done" =>
        /\ loop.closed = IF loop.close.had = NoBrowser THEN <<ClosedClient>>
                         ELSE <<ClosedBrowser(loop.close.had), ClosedClient>>
        /\ loop.client = "closed"
        /\ loop.launches = 0 => loop.close.had = NoBrowser

----------------------------------------------------------------------------
(* Claims about marker tokens *)

\* C26: marker tokens are per view: the marker list of a view is next, more,
\* older followed by the tokens added through that view alone, and the list a
\* next() without a list uses is still next, more, older.
C26_MarkersPerView ==
    /\ \A v \in 1..Len(marks.next_symbol) :
          marks.heap[marks.next_symbol[v]] = DEFAULT_NEXT_SYMBOL \o marks.added[v]
    /\ marks.default \in {NoList, DEFAULT_NEXT_SYMBOL}

----------------------------------------------------------------------------
(* Claims about the view after render *)

\* C27: once an attempt has produced content and render is over, render has
\* returned and the view still refers to the Session that produced it and to
\* that Session's browser.
C27_SessionKeptByRender ==
    (Done /\ Truthy(call.content)) =>
        /\ outcome.kind = "returned"
        /\ view.session = "session"
        /\ view.browser = session.browser


\* C28: when a render call is over, every page it opened is closed, except the
\* page of the successful attempt when keep_page was asked for and render
\* returned.
C28_NoPageLeaked ==
    Done =>
        \A p \in 1..Len(pages) :
            pages[p].state = "open" =>
                (outcome.kind = "returned" /\ call.keep_page /\ p = call.page)

\* The same for the calls in which no step raised an error other than a timeout
\* and which did not end at line 738 (an attempt that captures empty content
\* under keep_page leaves its page open, so this does not hold either)
C28_NoPageLeakedByTimeouts ==
    (Done /\ outcome.kind \notin {"PageError", "AttributeError"}) =>
        \A p \in 1..Len(pages) :
            pages[p].state = "open" =>
                (outcome.kind = "returned" /\ call.keep_page /\ p = call.page)


\* C29: a render call that has ended in MaxRetries has left the view as it
\* was when render was called: raw content, URL, encoding, cached tree and
\* selector handle, marker list and page handle.
C29_MaxRetriesLeavesViewUnchanged ==
    outcome.kind = "MaxRetries" =>
        /\ view.html = call.self.html
        /\ view.url = call.self.url
        /\ EncodingOf(view) = EncodingOf(call.self)
        /\ view.lxml = call.self.lxml
        /\ view.pq = call.self.pq
        /\ view.next_symbol = call.self.next_symbol
        /\ view.page = call.self.page

\* MaxRetries after attempts on a view whose encoding the caller had set
C29_Witness ==
    /\ outcome.kind = "MaxRetries"
    /\ call.attempts >= 2
    /\ call.self.encoding = "latin-1"

====
